---- MODULE Spec2Model ----
(***************************************************************************)
(* The consolidation engine of the journal application:                    *)
(*   - the chat stream, the consolidation cursor, the debounce timer and   *)
(*     the forced flush of App.tsx (specification Spec);                   *)
(*   - runWithRetry of geminiService.ts (specification SpecRetry);         *)
(*   - generateEntryFromChat and the error containment of one              *)
(*     handleAutoSync pass (specification SpecExtract).                    *)
(*   - the records one pass writes (specification SpecMaterialize) and the *)
(*     collections of storageService.ts under successive passes            *)
(*     (specification SpecStore);                                          *)
(*   - handleSaveEvent of the calendar view (specification SpecCalendar);  *)
(*   - sendMessageToGemini and ChatInterface.handleSend (specification     *)
(*     SpecSend);                                                          *)
(*   - Spec under fairness of timers and external calls (specification     *)
(*     SpecLive), and with the API key stored and removed (specification   *)
(*     SpecKey);                                                           *)
(*   - extraction results with undated candidates (specification           *)
(*     SpecCandidates) and deleteEntry between passes (specification       *)
(*     SpecDelete).                                                        *)
(***************************************************************************)
EXTENDS Integers, Sequences, FiniteSets, TLC

(***************************************************************************)
(* Bounds of the model.                                                    *)
(***************************************************************************)
\* Longest chat history found in storage at startup.
MaxHistory == 1
\* Number of user messages sent during a run.
MaxSends == 2
\* Number of consolidation passes materialized during a run.
MaxPasses == 2
\* Number of events saved from the calendar form during a run.
MaxSaves == 1

(***************************************************************************)
(* Program constants.                                                      *)
(***************************************************************************)
\* The debounce window of the auto-sync timer, in milliseconds.
DebounceMs == 2000
\* runWithRetry: the default number of attempts.
Retries == 3
\* runWithRetry: the base waits, in milliseconds, after a rate-limit error
\* and after a server error.
RateLimitBaseMs == 3000
ServerBaseMs == 2000

Tabs == {"chat", "journal", "tasks"}

VARIABLES
    personalMessages,          \* App state: the chat stream (sequence of messages)
    personalProcessedCountRef, \* App ref: the consolidation cursor
    autoSyncTimeoutRef,        \* App ref: 0 for null, else the id of the last timer set
    activeTab,                 \* App state: the tab shown
    isAutoSaving,              \* App state: the in-progress indicator
    isTyping,                  \* state of the mounted ChatInterface
    pendingSends,              \* handleSend calls awaiting sendMessageToGemini
    sent,                      \* number of user messages sent so far
    timers,                    \* the browser's pending timeouts
    timerCount,                \* number of timeouts set so far (the last timer id)
    passes,                    \* every handleAutoSync pass that got past its guard
    startupCount,              \* length of the chat history loaded at startup
    lastTrigger,               \* what invoked the pass started last: "timer" or "effect"
    retryCall,                 \* SpecRetry: the outcomes the wrapped operation will give
    retryResult,               \* SpecRetry: what runWithRetry did with them
    extractCall,               \* SpecExtract: the inputs of one extraction
    extractResult,             \* SpecExtract: what generateEntryFromChat resolved to
    passResult,                \* SpecExtract: how the handleAutoSync pass ended
    now,                       \* the clock read by Date.now(), in milliseconds
    entries,                   \* localStorage: the journal entries
    tasks,                     \* localStorage: the tasks
    calendarEvents,            \* localStorage: the calendar events
    transactions,              \* localStorage: the finance transactions
    passLog,                   \* what each materialization wrote, in order
    materializeCall,           \* SpecMaterialize: the inputs of one materialization
    saveEventLog,              \* SpecCalendar: the calls of handleSaveEvent
    sendCall,                  \* SpecSend: the inputs of one handleSend
    sendResult,                \* SpecSend: what handleSend did with them
    geminiApiKey,              \* whether getApiKey() finds a key
    lastCall                   \* SpecKey: the external calls of the pass that ended last

appVars == <<personalMessages, personalProcessedCountRef, autoSyncTimeoutRef,
             activeTab, isAutoSaving, isTyping, pendingSends, sent, timers,
             timerCount, passes, startupCount, lastTrigger>>

keyVars == <<geminiApiKey, lastCall>>

retryVars == <<retryCall, retryResult>>

extractVars == <<extractCall, extractResult, passResult>>

storeVars == <<now, entries, tasks, calendarEvents, transactions, passLog,
               materializeCall>>

calendarVars == <<saveEventLog>>

sendVars == <<sendCall, sendResult>>

recordVars == <<storeVars, calendarVars, sendVars>>

vars == <<appVars, keyVars, retryVars, extractVars, recordVars>>

(***************************************************************************)
(* Chat messages.  A message is [id, role]; ids are fresh per message      *)
(* (the code takes them from the clock).                                   *)
(***************************************************************************)
getChatHistory(h) ==
    [i \in 1..h |-> [id |-> i, role |-> IF i % 2 = 1 THEN "user" ELSE "model"]]

newUserMsg(n) == [id |-> MaxHistory + 2 * n + 1, role |-> "user"]

aiMsg(userMsg) == [id |-> userMsg.id + 1, role |-> "model"]

Ids(msgs) == {msgs[k].id : k \in DOMAIN msgs}

(***************************************************************************)
(* runWithRetry (geminiService.ts).                                        *)
(*                                                                         *)
(* An error is [status, message]: status 0 stands for an error without a   *)
(* status, and message names the marker the message text contains          *)
(* ("quota" stands for '429' and 'quota', "Internal error" for '503',      *)
(* '500' and 'Internal error', "not found" for '404' and 'not found').     *)
(* A response text is [fenced, body].  The wrapped operation is given as   *)
(* the sequence of the outcomes of its successive invocations.             *)
(***************************************************************************)
Statuses == {0, 403, 404, 429, 500, 503}

Markers == {"none", "quota", "Internal error", "not found"}

Errors == [status : Statuses, message : Markers]

NoError == [status |-> 0, message |-> "no error"]

MaxRetriesExceeded == [status |-> 0, message |-> "Max retries exceeded"]

Bodies == {"object", "malformed", "null", "garbage"}

NoText == [fenced |-> FALSE, body |-> "undefined"]

Responses == [fenced : BOOLEAN, body : Bodies] \cup {NoText}

Outcomes ==
    {[ok |-> TRUE, text |-> t, error |-> NoError] : t \in Responses}
        \cup {[ok |-> FALSE, text |-> NoText, error |-> e] : e \in Errors}

Operations == [1..Retries -> Outcomes]

isRateLimit(error) == error.status = 429 \/ error.message = "quota"

isServerIssue(error) ==
    error.status = 503 \/ error.status = 500 \/ error.message = "Internal error"

isNotFound(error) == error.status = 404 \/ error.message = "not found"

RECURSIVE Pow2(_)
Pow2(i) == IF i = 0 THEN 1 ELSE 2 * Pow2(i - 1)

\* Mutant: the wait does not grow with the attempt.
waitTime_NoDoubling(error, i) ==
    IF isRateLimit(error) THEN RateLimitBaseMs ELSE ServerBaseMs

waitTime(error, i) ==
    (IF isRateLimit(error) THEN RateLimitBaseMs ELSE ServerBaseMs) * Pow2(i)

Returned(i, waits, text) ==
    [ok |-> TRUE, attempts |-> i + 1, waits |-> waits, text |-> text, error |-> NoError]

Thrown(i, waits, error) ==
    [ok |-> FALSE, attempts |-> i + 1, waits |-> waits, text |-> NoText, error |-> error]

\* Mutant: a transient failure of the last attempt is retried too, so the
\* loop runs out.
RECURSIVE retryLoop_RetryLast(_, _, _, _)
retryLoop_RetryLast(operation, retries, i, waits) ==
    IF i >= retries
    THEN [ok |-> FALSE, attempts |-> i, waits |-> waits, text |-> NoText,
          error |-> MaxRetriesExceeded]
    ELSE LET r == operation[i + 1]
         IN  IF r.ok
             THEN Returned(i, waits, r.text)
             ELSE IF isNotFound(r.error)
                  THEN Thrown(i, waits, r.error)
                  ELSE IF isRateLimit(r.error) \/ isServerIssue(r.error)
                       THEN retryLoop_RetryLast(operation, retries, i + 1,
                                                Append(waits, waitTime(r.error, i)))
                       ELSE Thrown(i, waits, r.error)

\* Mutant: every failure but the last attempt's is retried, whatever its class.
RECURSIVE retryLoop_RetryAll(_, _, _, _)
retryLoop_RetryAll(operation, retries, i, waits) ==
    IF i >= retries
    THEN [ok |-> FALSE, attempts |-> i, waits |-> waits, text |-> NoText,
          error |-> MaxRetriesExceeded]
    ELSE LET r == operation[i + 1]
         IN  IF r.ok
             THEN Returned(i, waits, r.text)
             ELSE IF i < retries - 1
                  THEN retryLoop_RetryAll(operation, retries, i + 1,
                                          Append(waits, waitTime(r.error, i)))
                  ELSE Thrown(i, waits, r.error)

\* The loop of runWithRetry from iteration i on, waits being the delays
\* awaited so far.
RECURSIVE retryLoop(_, _, _, _)
retryLoop(operation, retries, i, waits) ==
    IF i >= retries
    THEN [ok |-> FALSE, attempts |-> i, waits |-> waits, text |-> NoText,
          error |-> MaxRetriesExceeded]
    ELSE LET r == operation[i + 1]
         IN  IF r.ok
             THEN Returned(i, waits, r.text)
             ELSE IF isNotFound(r.error)
                  THEN Thrown(i, waits, r.error)
                  ELSE IF (isRateLimit(r.error) \/ isServerIssue(r.error)) /\ i < retries - 1
                       THEN retryLoop(operation, retries, i + 1,
                                      Append(waits, waitTime(r.error, i)))
                       ELSE Thrown(i, waits, r.error)

runWithRetry(operation) == retryLoop(operation, Retries, 0, <<>>)

NoRun == [ok |-> FALSE, attempts |-> 0, waits |-> <<>>, text |-> NoText, error |-> NoError]

\* Everything a run of runWithRetry can end with.
RunResults == {runWithRetry(op) : op \in Operations}

(***************************************************************************)
(* generateEntryFromChat (geminiService.ts), given what the runs on the    *)
(* primary and on the fallback model end with.                             *)
(***************************************************************************)
\* response.text || "{}"
textOrEmptyObject(text) ==
    IF text.body = "undefined" THEN [fenced |-> FALSE, body |-> "{}"] ELSE text

\* The three replace() calls that strip the code-fence markers.
stripFences(text) == [text EXCEPT !.fenced = FALSE]

\* JSON.parse: [ok, data].
JSONparse(text) ==
    IF text.fenced \/ text.body = "garbage"
    THEN [ok |-> FALSE, data |-> "none"]
    ELSE [ok |-> TRUE, data |-> IF text.body = "{}" THEN "empty" ELSE text.body]

\* One try block: generate(model), then the parse of its text.
generateAndParse(run) ==
    IF run.ok
    THEN JSONparse(stripFences(textOrEmptyObject(run.text)))
    ELSE [ok |-> FALSE, data |-> "none"]

\* Mutant: the fallback model is called whether the primary run's output
\* was parsed or not.
generateEntryFromChat_AlwaysFallback(hasKey, primaryRun, fallbackRun) ==
    IF ~hasKey
    THEN [data |-> "empty", failed |-> TRUE, primaryCalls |-> 0, fallbackCalls |-> 0,
          primary |-> "skipped", fallback |-> "skipped"]
    ELSE LET first == generateAndParse(primaryRun)
             second == generateAndParse(fallbackRun)
         IN  [data |-> IF first.ok THEN first.data
                       ELSE IF second.ok THEN second.data ELSE "empty",
              failed |-> ~first.ok /\ ~second.ok,
              primaryCalls |-> primaryRun.attempts,
              fallbackCalls |-> fallbackRun.attempts,
              primary |-> IF first.ok THEN "ok"
                          ELSE IF primaryRun.ok THEN "unparsable" ELSE "failed",
              fallback |-> IF second.ok THEN "ok"
                           ELSE IF fallbackRun.ok THEN "unparsable" ELSE "failed"]

\* Mutant: the extraction does not look for the API key.
generateEntryFromChat_NoKeyCheck(hasKey, primaryRun, fallbackRun) ==
    LET first == generateAndParse(primaryRun)
        second == generateAndParse(fallbackRun)
    IN  IF first.ok
        THEN [data |-> first.data, failed |-> FALSE,
              primaryCalls |-> primaryRun.attempts, fallbackCalls |-> 0,
              primary |-> "ok", fallback |-> "skipped"]
        ELSE [data |-> IF second.ok THEN second.data ELSE "empty",
              failed |-> ~second.ok,
              primaryCalls |-> primaryRun.attempts,
              fallbackCalls |-> fallbackRun.attempts,
              primary |-> IF primaryRun.ok THEN "unparsable" ELSE "failed",
              fallback |-> IF second.ok THEN "ok"
                           ELSE IF fallbackRun.ok THEN "unparsable" ELSE "failed"]

generateEntryFromChat(hasKey, primaryRun, fallbackRun) ==
    IF ~hasKey
    THEN [data |-> "empty", failed |-> TRUE, primaryCalls |-> 0, fallbackCalls |-> 0,
          primary |-> "skipped", fallback |-> "skipped"]
    ELSE LET first == generateAndParse(primaryRun)
             second == generateAndParse(fallbackRun)
         IN  IF first.ok
             THEN [data |-> first.data, failed |-> FALSE,
                   primaryCalls |-> primaryRun.attempts, fallbackCalls |-> 0,
                   primary |-> "ok", fallback |-> "skipped"]
             ELSE [data |-> IF second.ok THEN second.data ELSE "empty",
                   failed |-> ~second.ok,
                   primaryCalls |-> primaryRun.attempts,
                   fallbackCalls |-> fallbackRun.attempts,
                   primary |-> IF primaryRun.ok THEN "unparsable" ELSE "failed",
                   fallback |-> IF second.ok THEN "ok"
                                ELSE IF fallbackRun.ok THEN "unparsable" ELSE "failed"]

NoExtraction ==
    [data |-> "none", failed |-> FALSE, primaryCalls |-> 0, fallbackCalls |-> 0,
     primary |-> "none", fallback |-> "none"]

\* What handleAutoSync can get back from generateEntryFromChat.
GenOutcomes ==
    {[data |-> g.data, failed |-> g.failed] :
        g \in {generateEntryFromChat(k, r1, r2) :
                  k \in BOOLEAN, r1 \in RunResults, r2 \in RunResults}}

(***************************************************************************)
(* App.tsx.  The mutable App-level state that the effects and              *)
(* handleAutoSync thread through one render is passed as a record          *)
(*   [count, ref, timers, timerCount, passes, saving, trigger].            *)
(* A pass is [a, b, newInput, phase, failed]: the cursor before and after  *)
(* its advance, the slice it submits, and whether its extraction failed.   *)
(***************************************************************************)
appState ==
    [count  |-> personalProcessedCountRef,
     ref    |-> autoSyncTimeoutRef,
     timers |-> timers,
     timerCount |-> timerCount,
     passes |-> passes,
     saving |-> isAutoSaving,
     trigger |-> lastTrigger]

clearTimeout(ts, ref) == {t \in ts : t.id # ref}

setTimeout(ts, id, messages) ==
    ts \cup {[id |-> id, messages |-> messages, delay |-> DebounceMs]}

NewPass(count, messages) ==
    [a        |-> count,
     b        |-> Len(messages),
     newInput |-> SubSeq(messages, count + 1, Len(messages)),
     phase    |-> "extracting",
     failed   |-> FALSE,
     hasKey   |-> geminiApiKey]

\* Mutant: the guard on the number of new messages is missing.
handleAutoSync_NoGuard(st, messages, by) ==
    [st EXCEPT !.saving = TRUE,
               !.trigger = by,
               !.passes = Append(@, NewPass(st.count, messages)),
               !.count = Len(messages)]

\* Mutant: the cursor is not advanced before the extraction call.
handleAutoSync_NoAdvance(st, messages, by) ==
    IF Len(messages) - st.count <= 0
    THEN st
    ELSE [st EXCEPT !.saving = TRUE,
                    !.trigger = by,
                    !.passes = Append(@, NewPass(st.count, messages))]

\* handleAutoSync up to its await, run on the stream its closure captured:
\* the guard, the slice, the cursor advance.
handleAutoSync(st, messages, by) ==
    LET newMessagesCount == Len(messages) - st.count
    IN  IF newMessagesCount <= 0
        THEN st
        ELSE [st EXCEPT !.saving = TRUE,
                        !.trigger = by,
                        !.passes = Append(@, NewPass(st.count, messages)),
                        !.count = Len(messages)]

\* Mutant: an exception of the pass escapes handleAutoSync.
handleAutoSyncCatch_NoCatch(generated, storageThrows) ==
    LET threw == \/ generated.data \in {"null", "malformed"}
                 \/ generated.data = "object" /\ storageThrows
    IN  [threw |-> threw, outcome |-> IF threw THEN "rejected" ELSE "resolved"]

\* handleAutoSync after its await: the materialization throws when the
\* data is null or ill-shaped, or when a storage write throws; the catch
\* block contains it.
handleAutoSyncCatch(generated, storageThrows) ==
    LET threw == \/ generated.data \in {"null", "malformed"}
                 \/ generated.data = "object" /\ storageThrows
    IN  [threw |-> threw, outcome |-> "resolved"]

\* Mutant: the indicator is cleared at the end of the try block, not in a
\* finally block.
handleAutoSyncSettle_NoFinally(st, i, generated) ==
        [st EXCEPT !.passes[i].phase = "done",
                   !.passes[i].failed = generated.failed,
                   !.saving = IF generated.failed THEN @ ELSE FALSE]

\* Mutant: a failed extraction moves the cursor back to the start of the slice.
handleAutoSyncSettle_Rollback(st, i, generated) ==
        [st EXCEPT !.passes[i].phase = "done",
                   !.passes[i].failed = generated.failed,
                   !.count = IF generated.failed THEN st.passes[i].a ELSE @,
                   !.saving = FALSE]

\* The end of pass i: the try block's remainder, catch and finally.
handleAutoSyncSettle(st, i, generated) ==
        [st EXCEPT !.passes[i].phase = "done",
                   !.passes[i].failed = generated.failed,
                   !.saving = FALSE]

\* Mutant: the pending timer is not cancelled before the new one is set.
debounceEffect_NoClear(st, messages) ==
    IF Len(messages) > st.count
    THEN [st EXCEPT !.timers = setTimeout(@, st.timerCount + 1, messages),
                    !.ref = st.timerCount + 1,
                    !.timerCount = @ + 1]
    ELSE st

\* The debounce effect, run after a render in which the stream changed.
debounceEffect(st, messages) ==
    IF Len(messages) > st.count
    THEN [st EXCEPT !.timers = setTimeout(clearTimeout(@, st.ref), st.timerCount + 1, messages),
                    !.ref = st.timerCount + 1,
                    !.timerCount = @ + 1]
    ELSE st

\* Mutant: the forced flush leaves the pending timer running.
forcedFlushEffect_NoClear(st, messages, tab) ==
    IF tab # "chat" /\ st.ref # 0
    THEN handleAutoSync(st, messages, "effect")
    ELSE st

\* The forced-flush effect, run after a render in which the tab or the
\* stream changed.
forcedFlushEffect(st, messages, tab) ==
    IF tab # "chat" /\ st.ref # 0
    THEN handleAutoSync([st EXCEPT !.timers = clearTimeout(@, st.ref)], messages, "effect")
    ELSE st

\* The effects of the render that follows setPersonalMessages(msgs), in the
\* order of their declaration.
renderMessages(st, msgs, tab) ==
    forcedFlushEffect(debounceEffect(st, msgs), msgs, tab)

\* Writes an appState record back to the variables.
Commit(st) ==
    /\ personalProcessedCountRef' = st.count
    /\ autoSyncTimeoutRef' = st.ref
    /\ timers' = st.timers
    /\ timerCount' = st.timerCount
    /\ passes' = st.passes
    /\ isAutoSaving' = st.saving
    /\ lastTrigger' = st.trigger

\* updateCurrentChatMessages and the render it causes.
updateCurrentChatMessages(msgs) ==
    /\ personalMessages' = msgs
    /\ Commit(renderMessages(appState, msgs, activeTab))

(***************************************************************************)
(* Strings.  A string is a sequence of characters; the characters that     *)
(* matter are the letter "a", the space, the newline, the dot, "]" and     *)
(* the opening "[Attachment:" of an attachment tag, taken as one           *)
(* character.  An optional string is [defined, chars].                     *)
(***************************************************************************)
Whitespace == {" ", "\n"}

Undefined == [defined |-> FALSE, chars |-> <<>>]

Str(chars) == [defined |-> TRUE, chars |-> chars]

\* n times the character c.
Rep(c, n) == [k \in 1..n |-> c]

RECURSIVE trimStart(_)
trimStart(s) ==
    IF s # <<>> /\ Head(s) \in Whitespace THEN trimStart(Tail(s)) ELSE s

RECURSIVE trimEnd(_)
trimEnd(s) ==
    IF s # <<>> /\ s[Len(s)] \in Whitespace
    THEN trimEnd(SubSeq(s, 1, Len(s) - 1))
    ELSE s

\* String.prototype.trim
trim(s) == trimEnd(trimStart(s))

\* The position of the first "]" at or after k on the line of k, 0 if none
\* ('.' does not match a newline).
RECURSIVE closingBracket(_, _)
closingBracket(s, k) ==
    IF k > Len(s) \/ s[k] = "\n" THEN 0
    ELSE IF s[k] = "]" THEN k
    ELSE closingBracket(s, k + 1)

\* text.replace(/\[Attachment:.*?\]/gi, ''): every tag opening is removed
\* up to the first "]" that follows it on its line.
RECURSIVE stripAttachmentTags(_)
stripAttachmentTags(s) ==
    IF s = <<>> THEN <<>>
    ELSE IF Head(s) = "[Attachment:" /\ closingBracket(s, 2) # 0
         THEN stripAttachmentTags(SubSeq(s, closingBracket(s, 2) + 1, Len(s)))
         ELSE <<Head(s)>> \o stripAttachmentTags(Tail(s))

\* s.split('\n')[0]
RECURSIVE firstLine(_)
firstLine(s) ==
    IF s = <<>> \/ Head(s) = "\n" THEN <<>>
    ELSE <<Head(s)>> \o firstLine(Tail(s))

\* s.substring(0, n)
substring(s, n) == SubSeq(s, 1, IF Len(s) < n THEN Len(s) ELSE n)

\* strings.join('\n')
RECURSIVE join(_)
join(strings) ==
    IF strings = <<>> THEN <<>>
    ELSE IF Len(strings) = 1 THEN strings[1]
    ELSE strings[1] \o <<"\n">> \o join(Tail(strings))

(***************************************************************************)
(* storageService.ts.  A collection is the sequence of records stored      *)
(* under its key.                                                          *)
(***************************************************************************)
\* Array.prototype.findIndex on the id: the first position, 0 for -1.
findIndex(records, id) ==
    IF \E k \in DOMAIN records : records[k].id = id
    THEN CHOOSE k \in DOMAIN records :
             /\ records[k].id = id
             /\ \A q \in 1..(k - 1) : records[q].id # id
    ELSE 0

saveEntry(current, entry) ==
    LET existingIndex == findIndex(current, entry.id)
    IN  IF existingIndex > 0
        THEN [current EXCEPT ![existingIndex] = entry]
        ELSE Append(current, entry)

RECURSIVE saveTasks(_, _)
saveTasks(current, list) ==
    IF list = <<>> THEN current
    ELSE LET t == Head(list)
             idx == findIndex(current, t.id)
         IN  saveTasks(IF idx > 0 THEN [current EXCEPT ![idx] = t]
                       ELSE Append(current, t),
                       Tail(list))

addCalendarEvents(current, events) ==
    current \o SelectSeq(events,
                   LAMBDA e : ~\E k \in DOMAIN current : current[k].id = e.id)

addTransactions(current, txs) == current \o txs

\* The four collections as one record.
store ==
    [entries |-> entries, tasks |-> tasks, calendarEvents |-> calendarEvents,
     transactions |-> transactions]

\* Mutant: the records linked to the entry are deleted with it.
deleteEntry_Cascade(st, id) ==
    [st EXCEPT !.entries = SelectSeq(@, LAMBDA e : e.id # id),
               !.tasks = SelectSeq(@, LAMBDA t : t.linkedEntryId # id.batch),
               !.calendarEvents = SelectSeq(@, LAMBDA c : c.linkedEntryId # id.batch),
               !.transactions = SelectSeq(@, LAMBDA x : x.linkedEntryId # id.batch)]

\* deleteEntry(id) on the stored collections st.
deleteEntry(st, id) ==
    [st EXCEPT !.entries = SelectSeq(@, LAMBDA e : e.id # id)]

(***************************************************************************)
(* The materialization of a pass: handleAutoSync after its await.          *)
(* A chat message is here [role, userText, text, attachment], userText     *)
(* being what the user typed (the code keeps only text), the extraction    *)
(* result [hasContent, title, content, tasks, calendarEvents,              *)
(* transactions] with optional strings for title and content and lists of  *)
(* record payloads.                                                        *)
(***************************************************************************)
\* The longest first line used whole as a fallback title.
TitleMax == 50

\* linkedEntryId: undefined.
NoLink == 0

NoAttachment == [type |-> "none", name |-> <<>>]

\* ChatInterface.handleSend: the text of the user's message.
messageText(userText, attachment) ==
    IF attachment.type # "none"
    THEN userText \o <<"\n", "[Attachment:", " ">> \o attachment.name \o <<"]">>
    ELSE userText

collectedMedia(newInput) ==
    SelectSeq(newInput, LAMBDA msg : msg.attachment.type = "image")

rawUserText(newInput) ==
    LET userMsgs == SelectSeq(newInput, LAMBDA m : m.role = "user")
        texts == [k \in DOMAIN userMsgs |-> trim(stripAttachmentTags(userMsgs[k].text))]
    IN  join(SelectSeq(texts, LAMBDA t : Len(t) > 0))

\* !x || x.trim() === ""
blank(x) == ~x.defined \/ x.chars = <<>> \/ trim(x.chars) = <<>>

\* A string in a condition: defined and not empty.
truthy(x) == x.defined /\ x.chars # <<>>

recordId(entryId, kind, i) == [batch |-> entryId, kind |-> kind, i |-> i]

\* A candidate of a list of the extraction result: [name, when], when
\* being its startTime (event), dueDate (task) or date (transaction),
\* "given" or "undefined".
Candidate(name, when) == [name |-> name, when |-> when]

\* generatedData.<list>.map(...): the ids and the link of the new records;
\* a task without dueDate and a transaction without date get the current
\* time, an event is spread as it is.
newRecords(list, entryId, kind, shouldCreateEntry) ==
    [k \in DOMAIN list |->
        [id |-> recordId(entryId, kind, k - 1),
         linkedEntryId |-> IF shouldCreateEntry THEN entryId ELSE NoLink,
         when |-> IF kind # "evt" /\ list[k].when = "undefined"
                  THEN "new Date().toISOString()"
                  ELSE list[k].when,
         payload |-> list[k]]]

fallbackTitle(raw, media) ==
    IF raw # <<>>
    THEN LET line == firstLine(raw)
         IN  IF Len(line) > TitleMax
             THEN substring(line, TitleMax) \o <<".", ".", ".">>
             ELSE line
    ELSE IF media # <<>> THEN <<"Photo Memory">>
    ELSE <<"Log: ", "time">>

\* The records a pass writes and the collections after it:
\* [store, shouldCreateEntry, saved, entry, newEvents, newTasks, newTxs].
handleAutoSyncMaterialize(generatedData, newInput, entryId, st) ==
    LET media == collectedMedia(newInput)
        raw == rawUserText(newInput)
        shouldCreateEntry == generatedData.hasContent = "true" \/ media # <<>>
        newEvents == newRecords(generatedData.calendarEvents, entryId, "evt", shouldCreateEntry)
        newTasks == newRecords(generatedData.tasks, entryId, "task", shouldCreateEntry)
        newTxs == newRecords(generatedData.transactions, entryId, "tx", shouldCreateEntry)
        finalTitle == IF blank(generatedData.title)
                      THEN fallbackTitle(raw, media)
                      ELSE generatedData.title.chars
        finalContent == IF blank(generatedData.content) /\ raw # <<>>
                        THEN Str(raw)
                        ELSE generatedData.content
        saved == shouldCreateEntry /\ (truthy(finalContent) \/ media # <<>>)
        newEntry == [id |-> recordId(entryId, "entry", 0),
                     title |-> finalTitle,
                     content |-> IF truthy(finalContent) THEN finalContent.chars ELSE <<>>,
                     media |-> media,
                     tasks |-> newTasks,
                     calendarEvents |-> newEvents,
                     transactions |-> newTxs]
    IN  [store |-> [entries |-> IF saved THEN saveEntry(st.entries, newEntry)
                                ELSE st.entries,
                    tasks |-> saveTasks(st.tasks, newTasks),
                    calendarEvents |-> addCalendarEvents(st.calendarEvents, newEvents),
                    transactions |-> addTransactions(st.transactions, newTxs)],
         shouldCreateEntry |-> shouldCreateEntry,
         saved |-> saved,
         entry |-> newEntry,
         newEvents |-> newEvents,
         newTasks |-> newTasks,
         newTxs |-> newTxs]

(***************************************************************************)
(* The calendar view: handleSaveEvent.                                     *)
(*                                                                         *)
(* A Date is an instant counted in hours, 24 * day + hour in UTC, days     *)
(* counted from a 1 January in years of 365 days.  A time zone is          *)
(* [before, after, switchDay]: the offset from UTC, in hours, of the local *)
(* days before switchDay and from switchDay on.                            *)
(***************************************************************************)
HoursPerDay == 24

DailyCount == 30
WeeklyCount == 12
MonthlyCount == 6
DaysPerWeek == 7

MonthDays == <<31, 28, 31, 30, 31, 30, 31, 31, 30, 31, 30, 31>>

\* The first day of month m (months counted from 0).
RECURSIVE monthStart(_)
monthStart(m) ==
    IF m = 0 THEN 0 ELSE monthStart(m - 1) + MonthDays[((m - 1) % 12) + 1]

\* Date.prototype.getMonth (with the years), on a local day.
RECURSIVE getMonthFrom(_, _)
getMonthFrom(day, m) ==
    IF day < monthStart(m + 1) THEN m ELSE getMonthFrom(day, m + 1)

getMonth(day) == getMonthFrom(day, 0)

\* Date.prototype.getDate, on a local day.
getDate(day) == day - monthStart(getMonth(day)) + 1

offset(zone, localDay) ==
    IF localDay >= zone.switchDay THEN zone.after ELSE zone.before

\* new Date('YYYY-MM-DD'): midnight UTC of the day.
newDate(day) == HoursPerDay * day

\* The local day and hour of an instant (the offset is the one in effect
\* on the UTC day, which is the local day for the instants of the model).
localDay(zone, instant) ==
    (instant + offset(zone, instant \div HoursPerDay)) \div HoursPerDay

localHour(zone, instant) ==
    (instant + offset(zone, instant \div HoursPerDay)) % HoursPerDay

\* The instant of a local day and hour.
fromLocal(zone, day, hour) == HoursPerDay * day + hour - offset(zone, day)

\* Date.prototype.setDate(n): the local day of the month becomes n, the
\* local time of day stays.
setDate(zone, instant, n) ==
    LET day == localDay(zone, instant)
    IN  fromLocal(zone, monthStart(getMonth(day)) + n - 1, localHour(zone, instant))

\* Date.prototype.setMonth(m): the local month becomes m, the day of the
\* month and the time of day stay.
setMonth(zone, instant, m) ==
    LET day == localDay(zone, instant)
    IN  fromLocal(zone, monthStart(m) + getDate(day) - 1, localHour(zone, instant))

\* date.toISOString().split('T')[0]: the UTC day.
toISODate(instant) == instant \div HoursPerDay

recurrences(repeat) ==
    IF repeat = "daily" THEN DailyCount
    ELSE IF repeat = "weekly" THEN WeeklyCount
    ELSE IF repeat = "monthly" THEN MonthlyCount
    ELSE 1

\* The date of occurrence i (from 0) of an event.
currentInstanceDate(zone, baseDate, repeat, i) ==
    LET day == localDay(zone, baseDate)
    IN  IF repeat = "daily" THEN setDate(zone, baseDate, getDate(day) + i)
        ELSE IF repeat = "weekly" THEN setDate(zone, baseDate, getDate(day) + i * DaysPerWeek)
        ELSE IF repeat = "monthly" THEN setMonth(zone, baseDate, getMonth(day) + i)
        ELSE baseDate

\* The events of the loop; the id is the clock followed by a random
\* suffix, taken as fresh for every event.
eventsToCreate(newEvent, zone, clock, call) ==
    [k \in 1..recurrences(newEvent.repeat) |->
        LET date == toISODate(currentInstanceDate(zone, newDate(newEvent.date),
                                                  newEvent.repeat, k - 1))
        IN  [id |-> [batch |-> clock, kind |-> "random", i |-> <<call, k>>],
             startTime |-> [date |-> date, time |-> "startTime"],
             endTime |-> [date |-> date, time |-> "endTime"]]]

tasksToCreate(events) ==
    [k \in DOMAIN events |->
        [id |-> <<"task-mirror-", events[k].id>>,
         dueDate |-> events[k].startTime,
         linkedEntryId |-> events[k].id]]

(***************************************************************************)
(* The interactive chat: sendMessageToGemini (geminiService.ts) given what *)
(* the runs on the primary and on the fallback model end with, and         *)
(* ChatInterface.handleSend as a whole.                                    *)
(***************************************************************************)
\* !result.text
noText(text) == text.body = "undefined"

\* The error of the primary model that selects the first fallback branch.
isForbiddenQuotaOrNotFound(error) ==
    \/ error.status \in {403, 404, 429}
    \/ error.message \in {"quota", "not found"}

\* [resolved, text]: the response text, or the error the call rejects with.
sendMessageToGemini(hasKey, primaryRun, fallbackRun) ==
    IF ~hasKey THEN [resolved |-> FALSE, text |-> "MISSING_API_KEY"]
    ELSE IF primaryRun.ok
    THEN [resolved |-> TRUE,
          text |-> IF noText(primaryRun.text) THEN "(Empty response from AI)"
                   ELSE "result.text"]
    ELSE IF fallbackRun.ok
    THEN [resolved |-> TRUE,
          text |-> IF ~noText(fallbackRun.text) THEN "fallbackResult.text"
                   ELSE IF isForbiddenQuotaOrNotFound(primaryRun.error)
                        THEN "I'm having trouble thinking, but I'm here."
                        ELSE "I experienced a hiccup, but I'm back."]
    ELSE [resolved |-> FALSE, text |-> "finalError"]

\* The text of the model-role message handleSend appends.
aiMsgText(response) ==
    IF response.resolved THEN response.text
    ELSE IF response.text = "MISSING_API_KEY" THEN "API Key Missing."
    ELSE "I'm having trouble connecting right now."

NoSend ==
    [accepted |-> FALSE, afterSend |-> <<>>, messages |-> <<>>, isTyping |-> FALSE,
     text |-> "none"]

\* Mutant: a rejected call leaves the user's message without an answer.
handleSendWhole_NoCatch(messages, typing, blankInput, attachment, response) ==
    IF (blankInput /\ ~attachment) \/ typing
    THEN [accepted |-> FALSE, afterSend |-> messages, messages |-> messages,
          isTyping |-> typing, text |-> "none"]
    ELSE LET newHistory == Append(messages, newUserMsg(0))
         IN  [accepted |-> TRUE,
              afterSend |-> newHistory,
              messages |-> IF response.resolved
                           THEN Append(newHistory, aiMsg(newUserMsg(0)))
                           ELSE newHistory,
              isTyping |-> FALSE,
              text |-> IF response.resolved THEN aiMsgText(response) ELSE "none"]

\* handleSend from its guard to its finally block, in a ChatInterface that
\* stays mounted: [accepted, afterSend, messages, isTyping, text] with the
\* stream after the first and after the last update.
handleSendWhole(messages, typing, blankInput, attachment, response) ==
    IF (blankInput /\ ~attachment) \/ typing
    THEN [accepted |-> FALSE, afterSend |-> messages, messages |-> messages,
          isTyping |-> typing, text |-> "none"]
    ELSE LET newHistory == Append(messages, newUserMsg(0))
         IN  [accepted |-> TRUE,
              afterSend |-> newHistory,
              messages |-> Append(newHistory, aiMsg(newUserMsg(0))),
              isTyping |-> FALSE,
              text |-> aiMsgText(response)]

(***************************************************************************)
(* Initial states.                                                         *)
(***************************************************************************)
\* The refs and the state of App at its first render.
FirstRender ==
    [count |-> 0, ref |-> 0, timers |-> {}, timerCount |-> 0, passes |-> <<>>,
     saving |-> FALSE, trigger |-> "none"]

\* Mutant: the mount effect leaves the cursor at 0.
mountEffect_NoCursor(st, personalChat) == st

\* The mount effect: the cursor is set to the length of the loaded history.
mountEffect(st, personalChat) == [st EXCEPT !.count = Len(personalChat)]

\* The effects of the first render (the stream is still empty), then the
\* render caused by setPersonalMessages(personalChat).
afterMount(personalChat) ==
    renderMessages(
        forcedFlushEffect(debounceEffect(mountEffect(FirstRender, personalChat), <<>>),
                          <<>>, "chat"),
        personalChat, "chat")

\* After the mount effect has loaded the chat history: the history is
\* empty or holds MaxHistory messages.
AppInit ==
    \E h \in {0, MaxHistory} :
        LET st == afterMount(getChatHistory(h))
        IN  /\ personalMessages = getChatHistory(h)
            /\ personalProcessedCountRef = st.count
            /\ startupCount = Len(getChatHistory(h))
            /\ autoSyncTimeoutRef = st.ref
            /\ activeTab = "chat"
            /\ isAutoSaving = st.saving
            /\ isTyping = FALSE
            /\ pendingSends = {}
            /\ sent = 0
            /\ timers = st.timers
            /\ timerCount = st.timerCount
            /\ passes = st.passes
            /\ lastTrigger = st.trigger

NoCall == [pass |-> 0, calls |-> 0]

\* A key is stored or not; no pass has ended.
KeyInit ==
    /\ geminiApiKey \in BOOLEAN
    /\ lastCall = NoCall

RetryInit ==
    /\ retryCall = <<>>
    /\ retryResult = NoRun

NoPass == [threw |-> FALSE, outcome |-> "none"]

ExtractInit ==
    /\ extractCall = <<>>
    /\ extractResult = NoExtraction
    /\ passResult = NoPass

\* Empty collections: getEntries, getCalendarEvents, getTasks and
\* getTransactions return [] when nothing is stored.
StoreInit ==
    /\ now = 1
    /\ entries = <<>>
    /\ tasks = <<>>
    /\ calendarEvents = <<>>
    /\ transactions = <<>>
    /\ passLog = <<>>
    /\ materializeCall = <<>>

CalendarInit == saveEventLog = <<>>

SendInit ==
    /\ sendCall = <<>>
    /\ sendResult = NoSend

Init ==
    AppInit /\ KeyInit /\ RetryInit /\ ExtractInit /\ StoreInit /\ CalendarInit /\ SendInit

(***************************************************************************)
(* Actions of Spec: the chat stream, the cursor, the timer, the passes.    *)
(***************************************************************************)
\* ChatInterface.handleSend up to its await.
handleSend ==
    /\ activeTab = "chat"
    /\ ~isTyping
    /\ sent < MaxSends
    /\ LET newHistory == Append(personalMessages, newUserMsg(sent))
       IN  /\ updateCurrentChatMessages(newHistory)
           /\ pendingSends' = pendingSends \cup {[newHistory |-> newHistory, live |-> TRUE]}
    /\ isTyping' = TRUE
    /\ sent' = sent + 1
    /\ UNCHANGED <<activeTab, startupCount, keyVars, retryVars, extractVars, recordVars>>

\* ChatInterface.handleSend after its await: the reply, or the error text,
\* is appended to the history the call captured; setIsTyping(false) acts
\* only on the component instance that made the call.
handleSendResume ==
    \E s \in pendingSends :
        /\ updateCurrentChatMessages(
               Append(s.newHistory, aiMsg(s.newHistory[Len(s.newHistory)])))
        /\ pendingSends' = pendingSends \ {s}
        /\ isTyping' = IF s.live THEN FALSE ELSE isTyping
        /\ UNCHANGED <<activeTab, sent, startupCount, keyVars, retryVars, extractVars, recordVars>>

\* setActiveTab(t) and the render it causes: ChatInterface is unmounted when
\* the tab leaves 'chat' and mounted afresh when it returns; the
\* forced-flush effect runs.
setActiveTab ==
    \E t \in Tabs \ {activeTab} :
        /\ activeTab' = t
        /\ isTyping' = IF activeTab = "chat" THEN FALSE ELSE isTyping
        /\ pendingSends' = IF activeTab = "chat"
                           THEN {[s EXCEPT !.live = FALSE] : s \in pendingSends}
                           ELSE pendingSends
        /\ Commit(forcedFlushEffect(appState, personalMessages, t))
        /\ UNCHANGED <<personalMessages, sent, startupCount, keyVars, retryVars, extractVars, recordVars>>

\* A pending timeout fires and runs the handleAutoSync it captured.
timerFires ==
    \E t \in timers :
        /\ Commit(handleAutoSync(
               [appState EXCEPT !.timers = @ \ {t}], t.messages, "timer"))
        /\ UNCHANGED <<personalMessages, activeTab, isTyping, pendingSends, sent,
                       startupCount, keyVars, retryVars, extractVars, recordVars>>

\* The extraction call of a pass in flight returns and the pass ends.
handleAutoSyncResume ==
    \E i \in DOMAIN passes :
        /\ passes[i].phase = "extracting"
        /\ \E generated \in GenOutcomes :
               Commit(handleAutoSyncSettle(appState, i, generated))
        /\ UNCHANGED <<personalMessages, activeTab, isTyping, pendingSends, sent,
                       startupCount, keyVars, retryVars, extractVars, recordVars>>

Next ==
    \/ handleSend
    \/ handleSendResume
    \/ setActiveTab
    \/ timerFires
    \/ handleAutoSyncResume

Spec == Init /\ [][Next]_vars

\* Spec with its assumptions on the environment: a pending timer fires, an
\* extraction call and a chat call return.
SpecLive ==
    /\ Spec
    /\ WF_vars(timerFires)
    /\ WF_vars(handleAutoSyncResume)
    /\ WF_vars(handleSendResume)

(***************************************************************************)
(* SpecKey: Spec with the API key stored and removed between passes, and   *)
(* the external calls of each pass counted.                                *)
(***************************************************************************)
\* What generateEntryFromChat resolves to, and the number of external
\* calls it made, with and without a key.
KeyOutcomes ==
    {LET g == generateEntryFromChat(c[1], c[2], c[3])
     IN  [hasKey |-> c[1], data |-> g.data, failed |-> g.failed,
          calls |-> g.primaryCalls + g.fallbackCalls] :
        c \in BOOLEAN \X RunResults \X RunResults}

\* handleSaveApiKey: a key is stored, or the stored key is removed.
handleSaveApiKey ==
    /\ geminiApiKey' = ~geminiApiKey
    /\ UNCHANGED <<appVars, lastCall, retryVars, extractVars, recordVars>>

\* The extraction call of a pass in flight returns and the pass ends; the
\* call found the key, or not, when the pass started.
handleAutoSyncResumeKey ==
    \E i \in DOMAIN passes :
        /\ passes[i].phase = "extracting"
        /\ \E g \in KeyOutcomes :
               /\ g.hasKey = passes[i].hasKey
               /\ Commit(handleAutoSyncSettle(
                      appState, i, [data |-> g.data, failed |-> g.failed]))
               /\ lastCall' = [pass |-> i, calls |-> g.calls]
        /\ UNCHANGED <<personalMessages, activeTab, isTyping, pendingSends, sent,
                       startupCount, geminiApiKey, retryVars, extractVars, recordVars>>

NextKey ==
    \/ handleSend
    \/ handleSendResume
    \/ setActiveTab
    \/ timerFires
    \/ handleAutoSyncResumeKey
    \/ handleSaveApiKey

SpecKey == Init /\ [][NextKey]_vars

(***************************************************************************)
(* SpecRetry: one call of runWithRetry on any operation.                   *)
(***************************************************************************)
callRunWithRetry ==
    /\ retryCall = <<>>
    /\ \E operation \in Operations :
           /\ retryCall' = operation
           /\ retryResult' = runWithRetry(operation)
    /\ UNCHANGED <<appVars, keyVars, extractVars, recordVars>>

NextRetry == callRunWithRetry

SpecRetry == Init /\ [][NextRetry]_vars

(***************************************************************************)
(* SpecExtract: the extraction of one handleAutoSync pass and its end, for *)
(* any API-key state, any behaviour of the two models and of the storage.  *)
(***************************************************************************)
extractPass ==
    /\ extractCall = <<>>
    /\ \E hasKey \in BOOLEAN, primaryRun \in RunResults, fallbackRun \in RunResults,
          storageThrows \in BOOLEAN :
           LET generated == generateEntryFromChat(hasKey, primaryRun, fallbackRun)
           IN  /\ extractCall' = [hasKey |-> hasKey, primaryRun |-> primaryRun,
                                  fallbackRun |-> fallbackRun,
                                  storageThrows |-> storageThrows]
               /\ extractResult' = generated
               /\ passResult' = handleAutoSyncCatch(generated, storageThrows)
    /\ UNCHANGED <<appVars, keyVars, retryVars, recordVars>>

NextExtract == extractPass

SpecExtract == Init /\ [][NextExtract]_vars

(***************************************************************************)
(* SpecMaterialize: the materialization of one pass into empty             *)
(* collections, for any extraction result and any new input.               *)
(***************************************************************************)
UserTexts == {<<>>, <<"a", "a">>, <<"a", "\n", "a">>, Rep("a", TitleMax + 1)}

Attachments ==
    {NoAttachment,
     [type |-> "image", name |-> <<"a">>],
     [type |-> "image", name |-> <<"a", "]", "a">>],
     [type |-> "text", name |-> <<"a">>]}

\* The user messages handleSend accepts: some text or an attachment.
UserMessages ==
    {[role |-> "user", userText |-> t, text |-> messageText(t, att),
      attachment |-> att] :
        <<t, att>> \in {x \in UserTexts \X Attachments :
                           x[1] # <<>> \/ x[2].type # "none"}}

ModelMessage ==
    [role |-> "model", userText |-> <<>>, text |-> <<"a">>, attachment |-> NoAttachment]

\* The slices: one message, a user message and its reply, two typed messages.
NewInputs ==
    {<<m>> : m \in UserMessages \cup {ModelMessage}}
        \cup {<<m, ModelMessage>> : m \in UserMessages}
        \cup {<<m1, m2>> : <<m1, m2>> \in
                 {x \in UserMessages \X UserMessages :
                     x[1].attachment.type = "none" /\ x[2].attachment.type = "none"}}

Payloads == {<<>>, <<Candidate("p", "given")>>}

ExtractionResults ==
    [hasContent : {"true", "false", "undefined"},
     title : {Undefined, Str(<<" ">>), Str(<<"a">>)},
     content : {Undefined, Str(<<>>), Str(<<" ">>), Str(<<"a">>)},
     tasks : Payloads, calendarEvents : Payloads, transactions : Payloads]

\* The object {} that generateEntryFromChat resolves to when it fails.
EmptyResult ==
    [hasContent |-> "undefined", title |-> Undefined, content |-> Undefined,
     tasks |-> <<>>, calendarEvents |-> <<>>, transactions |-> <<>>]

\* Writes the collections and the log of a materialization.
CommitPass(generatedData, newInput, entryId) ==
    LET m == handleAutoSyncMaterialize(generatedData, newInput, entryId, store)
    IN  /\ entries' = m.store.entries
        /\ tasks' = m.store.tasks
        /\ calendarEvents' = m.store.calendarEvents
        /\ transactions' = m.store.transactions
        /\ passLog' = Append(passLog,
               [entryId |-> entryId, generatedData |-> generatedData,
                newInput |-> newInput, shouldCreateEntry |-> m.shouldCreateEntry,
                saved |-> m.saved, entry |-> m.entry, newEvents |-> m.newEvents,
                newTasks |-> m.newTasks, newTxs |-> m.newTxs])

materializeOnce ==
    /\ passLog = <<>>
    /\ \E generatedData \in ExtractionResults, newInput \in NewInputs :
           /\ materializeCall' = <<generatedData, newInput>>
           /\ CommitPass(generatedData, newInput, now)
    /\ UNCHANGED <<appVars, keyVars, retryVars, extractVars, now, calendarVars, sendVars>>

NextMaterialize == materializeOnce

SpecMaterialize == Init /\ [][NextMaterialize]_vars

(***************************************************************************)
(* SpecStore: successive passes materialized into the same collections.    *)
(* Between the Date.now() of two passes the clock advances or not: two     *)
(* passes in flight can resume within the same millisecond.                *)
(***************************************************************************)
StoreInputs ==
    {<<[role |-> "user", userText |-> <<"a">>, text |-> messageText(<<"a">>, att),
        attachment |-> att]>> :
        att \in {NoAttachment, [type |-> "image", name |-> <<"a">>]}}

\* Extraction results of pass n: the payloads name the pass.
StoreResults(n) ==
    [hasContent : {"true", "false"}, title : {Str(<<"a">>)}, content : {Str(<<"a">>)},
     tasks : {<<>>, <<Candidate(n, "given")>>},
     calendarEvents : {<<>>, <<Candidate(n, "given")>>},
     transactions : {<<>>, <<Candidate(n, "given")>>}]

materializePass ==
    /\ Len(passLog) < MaxPasses
    /\ \E tick \in {0, 1} :
           /\ now' = now + tick
           /\ \E generatedData \in StoreResults(Len(passLog) + 1),
                 newInput \in StoreInputs :
                  CommitPass(generatedData, newInput, now + tick)
    /\ UNCHANGED <<appVars, keyVars, retryVars, extractVars, materializeCall, calendarVars,
                   sendVars>>

NextStore == materializePass

SpecStore == Init /\ [][NextStore]_vars

(***************************************************************************)
(* SpecDelete: passes and deletions of entries shown in the journal.       *)
(***************************************************************************)
\* The delete button of an entry of the list, confirmed.
handleDeleteEntry ==
    /\ \E k \in DOMAIN entries :
           LET st == deleteEntry(store, entries[k].id)
           IN  /\ entries' = st.entries
               /\ tasks' = st.tasks
               /\ calendarEvents' = st.calendarEvents
               /\ transactions' = st.transactions
    /\ UNCHANGED <<appVars, keyVars, retryVars, extractVars, now, passLog,
                   materializeCall, calendarVars, sendVars>>

NextDelete ==
    \/ materializePass
    \/ handleDeleteEntry

SpecDelete == Init /\ [][NextDelete]_vars

(***************************************************************************)
(* SpecCandidates: one pass whose extraction result holds candidates with  *)
(* and without their date.                                                 *)
(***************************************************************************)
CandidateLists ==
    {<<>>,
     <<Candidate("p", "given")>>,
     <<Candidate("p", "undefined")>>,
     <<Candidate("p", "undefined"), Candidate("q", "given")>>}

CandidateResults ==
    [hasContent : {"true", "false"}, title : {Str(<<"a">>)}, content : {Str(<<"a">>)},
     tasks : CandidateLists, calendarEvents : CandidateLists,
     transactions : CandidateLists]

materializeCandidates ==
    /\ passLog = <<>>
    /\ \E generatedData \in CandidateResults, newInput \in StoreInputs :
           /\ materializeCall' = <<generatedData, newInput>>
           /\ CommitPass(generatedData, newInput, now)
    /\ UNCHANGED <<appVars, keyVars, retryVars, extractVars, now, calendarVars, sendVars>>

NextCandidates == materializeCandidates

SpecCandidates == Init /\ [][NextCandidates]_vars

(***************************************************************************)
(* SpecCalendar: events saved from the calendar form, in any time zone.    *)
(***************************************************************************)
\* No daylight saving; Central Europe and the US East coast around the
\* start of daylight saving time; Central Europe around its end.
Zones ==
    {[before |-> 0, after |-> 0, switchDay |-> 0],
     [before |-> 1, after |-> 2, switchDay |-> 89],
     [before |-> 0 - 5, after |-> 0 - 4, switchDay |-> 68],
     [before |-> 2, after |-> 1, switchDay |-> 89]}

\* The form: whether the required fields are filled, the date, the mode.
NewEvents ==
    [filled : BOOLEAN, date : {30, 59, 85}, repeat : {"none", "daily", "weekly", "monthly"}]

handleSaveEvent ==
    /\ Len(saveEventLog) < MaxSaves
    /\ \E newEvent \in NewEvents, zone \in Zones, tick \in {0, 1} :
           LET created == IF newEvent.filled
                          THEN eventsToCreate(newEvent, zone, now + tick,
                                              Len(saveEventLog) + 1)
                          ELSE <<>>
           IN  /\ now' = now + tick
               /\ calendarEvents' = addCalendarEvents(calendarEvents, created)
               /\ tasks' = saveTasks(tasks, tasksToCreate(created))
               /\ saveEventLog' = Append(saveEventLog,
                      [newEvent |-> newEvent, zone |-> zone, created |-> created])
    /\ UNCHANGED <<appVars, keyVars, retryVars, extractVars, entries, transactions,
                   passLog, materializeCall, sendVars>>

NextCalendar == handleSaveEvent

SpecCalendar == Init /\ [][NextCalendar]_vars

(***************************************************************************)
(* SpecSend: one handleSend, for any input, any API-key state and any      *)
(* behaviour of the two models.  A send that the guard refuses makes no    *)
(* call.                                                                   *)
(***************************************************************************)
sendOnce ==
    /\ sendCall = <<>>
    /\ \E typing \in BOOLEAN, blankInput \in BOOLEAN, attachment \in BOOLEAN,
          hasKey \in BOOLEAN, primaryRun \in RunResults \cup {NoRun},
          fallbackRun \in RunResults \cup {NoRun} :
           LET refused == (blankInput /\ ~attachment) \/ typing
           IN  /\ refused => ~hasKey /\ primaryRun = NoRun /\ fallbackRun = NoRun
               /\ ~refused /\ ~hasKey => primaryRun = NoRun /\ fallbackRun = NoRun
               /\ ~refused /\ hasKey => primaryRun # NoRun /\ fallbackRun # NoRun
               /\ sendCall' = [messages |-> personalMessages, typing |-> typing,
                               blankInput |-> blankInput, attachment |-> attachment,
                               hasKey |-> hasKey, primaryRun |-> primaryRun,
                               fallbackRun |-> fallbackRun]
               /\ sendResult' = handleSendWhole(personalMessages, typing, blankInput,
                                    attachment,
                                    sendMessageToGemini(hasKey, primaryRun, fallbackRun))
    /\ UNCHANGED <<appVars, keyVars, retryVars, extractVars, storeVars, calendarVars>>

NextSend == sendOnce

SpecSend == Init /\ [][NextSend]_vars

(***************************************************************************)
(* Claims about the cursor, the slices, the timer and the forced flush     *)
(* (specification Spec).                                                   *)
(***************************************************************************)
InFlight == {i \in DOMAIN passes : passes[i].phase = "extracting"}

\* The passes tile the positions from the startup cursor to the cursor.
SlicesTile(ps, start, cursor) ==
    /\ ps = <<>> => cursor = start
    /\ ps # <<>> => ps[1].a = start /\ ps[Len(ps)].b = cursor
    /\ \A i \in 1..(Len(ps) - 1) : ps[i].b = ps[i + 1].a
    /\ \A i \in DOMAIN ps : ps[i].a < ps[i].b /\ Len(ps[i].newInput) = ps[i].b - ps[i].a

\* No message is in the new input of two passes.
SlicesDisjoint(ps) ==
    \A i, j \in DOMAIN ps :
        i # j => Ids(ps[i].newInput) \cap Ids(ps[j].newInput) = {}

\* A message of a slice sits at the slice's position in the stream.
SlicesInPlace(ps, stream) ==
    \A i \in DOMAIN ps : \A k \in DOMAIN ps[i].newInput : \A q \in DOMAIN stream :
        stream[q].id = ps[i].newInput[k].id => q = ps[i].a + k

\* The ids of every message created so far.
KnownIds ==
    Ids(personalMessages)
        \cup UNION {Ids(s.newHistory) : s \in pendingSends}
        \cup UNION {Ids(t.messages) : t \in timers}
        \cup UNION {Ids(passes[i].newInput) : i \in DOMAIN passes}

\* C1: processedCount never decreases and always satisfies
\* 0 <= processedCount <= length of the current stream.
C1_CursorMonotoneWithinStream ==
    [][/\ personalProcessedCountRef' >= personalProcessedCountRef
       /\ 0 <= personalProcessedCountRef'
       /\ personalProcessedCountRef' <= Len(personalMessages')]_vars

\* C2: the new-input slices of successive passes are contiguous and
\* disjoint: each pass takes the positions [a, b) from the cursor a it
\* started at to the cursor b the next pass starts at, every position below
\* the cursor is in exactly one slice, no message is in two slices, and a
\* message that arrives while a pass is in flight does not enter its input.
C2_SlicesContiguousDisjoint ==
    [][/\ SlicesTile(passes', startupCount', personalProcessedCountRef')
       /\ SlicesDisjoint(passes')
       /\ SlicesInPlace(passes', personalMessages')
       /\ \A i \in InFlight :
              /\ passes'[i].newInput = passes[i].newInput
              /\ Ids(passes'[i].newInput) \cap (Ids(personalMessages') \ KnownIds) = {}]_vars

\* C2 witness: a message has arrived while the first pass is in flight, and
\* a second pass has taken it.
C2_Witness ==
    /\ Len(passes) >= 2
    /\ passes[1].phase = "extracting"
    /\ passes[2].a = passes[1].b

\* C3 (as claimed): at most one pass is in flight at any time.
C3_AtMostOnePassInFlight == Cardinality(InFlight) <= 1

\* C3 (amended): a trigger starts at most one pass; it starts one exactly
\* when the stream it runs on is longer than the cursor, also while earlier
\* passes are in flight; and the slice of the new pass begins at or after the
\* end of the slice of every pass in flight and shares no message with it.
C3_ConcurrentPassesDisjoint ==
    [][/\ Len(passes') <= Len(passes) + 1
       /\ Len(passes') = Len(passes) + 1 =>
              \A i \in InFlight :
                  /\ passes[i].b <= passes'[Len(passes')].a
                  /\ Ids(passes[i].newInput) \cap Ids(passes'[Len(passes')].newInput) = {}
       /\ (/\ activeTab' # "chat"
           /\ activeTab' # activeTab \/ personalMessages' # personalMessages
           /\ autoSyncTimeoutRef' # 0)
              => (Len(passes') = Len(passes) + 1
                      <=> Len(personalMessages') > personalProcessedCountRef)
       /\ (personalMessages' = personalMessages /\ activeTab' = activeTab)
              => \A t \in timers \ timers' :
                     Len(passes') = Len(passes) + 1
                         <=> Len(t.messages) > personalProcessedCountRef]_vars

\* C3 witness: two passes are in flight at once.
C3_Witness == Cardinality(InFlight) >= 2

\* C4: after a failed extraction the cursor stays at or beyond the end of
\* the failed slice, and no other pass, in particular no later one, holds a
\* message of the failed slice.
C4_FailedSliceConsumed ==
    \A i \in DOMAIN passes :
        (passes[i].phase = "done" /\ passes[i].failed) =>
            /\ personalProcessedCountRef >= passes[i].b
            /\ \A j \in DOMAIN passes :
                   j # i => /\ Ids(passes[j].newInput) \cap Ids(passes[i].newInput) = {}
                            /\ j > i => passes[j].a >= passes[i].b

\* C4 witness: a pass failed and a later pass has started.
C4_Witness ==
    \E i \in DOMAIN passes :
        passes[i].phase = "done" /\ passes[i].failed /\ i < Len(passes)

\* C5: at most one debounce timer is pending, it is the one the ref names
\* and it runs for 2 seconds; a stream update that leaves unprocessed
\* messages cancels the pending timer and sets a new one; a timer that fires
\* is gone, never returns, and has invoked handleAutoSync once.
C5_SingleDebounceTimer ==
    [][/\ Cardinality(timers') <= 1
       /\ \A t \in timers' :
              /\ t.id = autoSyncTimeoutRef'
              /\ t.delay = DebounceMs
              /\ t \in timers \/ t.id > timerCount
       /\ (/\ personalMessages' # personalMessages
           /\ Len(personalMessages') > personalProcessedCountRef)
              => /\ timerCount' = timerCount + 1
                 /\ autoSyncTimeoutRef' = timerCount'
                 /\ timers \cap timers' = {}
                 /\ activeTab = "chat" =>
                        timers' = {[id |-> timerCount', messages |-> personalMessages',
                                    delay |-> DebounceMs]}
       /\ (personalMessages' = personalMessages /\ activeTab' = activeTab)
              => \A t \in timers \ timers' :
                     /\ timers' = {}
                     /\ passes' = IF Len(t.messages) > personalProcessedCountRef
                                  THEN Append(passes, NewPass(personalProcessedCountRef,
                                                              t.messages))
                                  ELSE passes]_vars

\* C5 witness: the timer of the first update was cancelled by the second
\* update, whose timer is pending.
C5_Witness ==
    /\ timerCount = 2
    /\ Cardinality(timers) = 1
    /\ passes = <<>>

\* C6: a tab change away from 'chat' with a timer pending cancels the
\* timer and invokes handleAutoSync on the current stream at once: afterwards
\* no timer is pending, no message lies beyond the cursor, the pass that took
\* the unprocessed messages is still extracting, and the tab has changed.
C6_ForcedFlushOnLeave ==
    [][(activeTab = "chat" /\ activeTab' # "chat" /\ timers # {})
          => /\ timers' = {}
             /\ personalMessages' = personalMessages
             /\ personalProcessedCountRef' >= Len(personalMessages')
             /\ passes' = IF Len(personalMessages) > personalProcessedCountRef
                          THEN Append(passes, NewPass(personalProcessedCountRef,
                                                      personalMessages))
                          ELSE passes]_vars

\* C6 witness: the only stream update so far happened on the chat tab, its
\* timer never fired, and the tab change has started the pass.
C6_Witness ==
    /\ activeTab # "chat"
    /\ sent = 1
    /\ pendingSends # {}
    /\ timerCount = 1
    /\ timers = {}
    /\ lastTrigger = "effect"
    /\ Len(passes) = 1
    /\ passes[1].phase = "extracting"
    /\ passes[1].b = Len(personalMessages)

(***************************************************************************)
(* Claims about runWithRetry (specification SpecRetry).  The classes of an *)
(* error are those the code computes: NotFound first, then RateLimited,    *)
(* then ServerOverload; every other error is not retried.                  *)
(***************************************************************************)
RetryDone == retryCall # <<>>

Transient(error) ==
    ~isNotFound(error) /\ (isRateLimit(error) \/ isServerIssue(error))

RateLimited(error) == Transient(error) /\ isRateLimit(error)

ServerOverload(error) == Transient(error) /\ ~isRateLimit(error)

\* The operation fails twice with a transient error and then succeeds.
TwoTransientThenSuccess(operation) ==
    /\ ~operation[1].ok /\ Transient(operation[1].error)
    /\ ~operation[2].ok /\ Transient(operation[2].error)
    /\ operation[3].ok

\* C7: runWithRetry invokes the operation at most 3 times; an attempt is
\* made only after every earlier one failed; a successful attempt ends the
\* run with its result; a run in which every attempt fails rejects with the
\* error of the last attempt made.
C7_AtMostThreeAttemptsLastError ==
    RetryDone =>
        LET n == retryResult.attempts
        IN  /\ n \in 1..Retries
            /\ \A k \in 1..(n - 1) : ~retryCall[k].ok
            /\ retryResult.ok <=> retryCall[n].ok
            /\ retryResult.ok => retryResult.text = retryCall[n].text
            /\ ~retryResult.ok => retryResult.error = retryCall[n].error

\* C7 witness: three attempts, all failed, the third error rejected.
C7_Witness ==
    /\ RetryDone
    /\ retryResult.attempts = Retries
    /\ ~retryResult.ok
    /\ retryResult.error = retryCall[Retries].error
    /\ retryCall[Retries].error # retryCall[1].error

C9_NonTransientNotRetried ==
    RetryDone =>
        \A k \in 1..retryResult.attempts :
            (~retryCall[k].ok /\ ~Transient(retryCall[k].error)) =>
                /\ retryResult.attempts = k
                /\ Len(retryResult.waits) = k - 1
                /\ ~retryResult.ok
                /\ retryResult.error = retryCall[k].error

\* C9 witness: a Forbidden error on the first attempt, rejected at once.
C9_Witness ==
    /\ RetryDone
    /\ retryResult.attempts = 1
    /\ retryResult.waits = <<>>
    /\ ~retryResult.ok
    /\ retryResult.error = [status |-> 403, message |-> "none"]

(***************************************************************************)
(* Claims about the records a pass writes (specifications SpecMaterialize  *)
(* and SpecStore).                                                         *)
(***************************************************************************)
LastPass == passLog[Len(passLog)]

Stored(collection, r) == \E k \in DOMAIN collection : collection[k] = r

StoredAll(collection, list) == \A k \in DOMAIN list : Stored(collection, list[k])

\* The records of the three lists a pass wrote.
ListRecords(p) ==
    {p.newTasks[k] : k \in DOMAIN p.newTasks}
        \cup {p.newEvents[k] : k \in DOMAIN p.newEvents}
        \cup {p.newTxs[k] : k \in DOMAIN p.newTxs}

\* What the user typed in the messages of a slice.
AuthoredText(newInput) ==
    LET userMsgs == SelectSeq(newInput, LAMBDA m : m.role = "user")
        texts == [k \in DOMAIN userMsgs |-> trim(userMsgs[k].userText)]
    IN  join(SelectSeq(texts, LAMBDA t : Len(t) > 0))

NoDuplicateIds(collection) ==
    \A k, q \in DOMAIN collection : collection[k].id = collection[q].id => k = q

\* putList of the specification: an existing id is replaced, a new id appended.
RECURSIVE Merge(_, _)
Merge(current, list) ==
    IF list = <<>> THEN current
    ELSE LET r == Head(list)
             idx == findIndex(current, r.id)
         IN  Merge(IF idx > 0 THEN [current EXCEPT ![idx] = r] ELSE Append(current, r),
                   Tail(list))

\* C11: a pass saves an entry only if hasContent is true or the slice
\* carries an image, and every task, event and transaction of a non-empty
\* list of its result is in the collections when the pass ends.
C11_EntryGatedRecordsPersisted ==
    passLog # <<>> =>
        LET p == LastPass
        IN  /\ p.saved => \/ p.generatedData.hasContent = "true"
                          \/ collectedMedia(p.newInput) # <<>>
            /\ Len(p.newTasks) = Len(p.generatedData.tasks)
            /\ Len(p.newEvents) = Len(p.generatedData.calendarEvents)
            /\ Len(p.newTxs) = Len(p.generatedData.transactions)
            /\ StoredAll(tasks, p.newTasks)
            /\ StoredAll(calendarEvents, p.newEvents)
            /\ StoredAll(transactions, p.newTxs)

\* C12: the records of a pass carry the batch id as linkedEntryId exactly
\* when the pass saved an entry with that id, and no link otherwise.
C12_LinkedIffEntryPersisted ==
    passLog # <<>> =>
        LET p == LastPass
        IN  \A r \in ListRecords(p) :
                /\ r.linkedEntryId = p.entryId
                       <=> Stored(entries, p.entry)
                /\ ~p.saved => r.linkedEntryId = NoLink

\* C13: two passes never have the same batch id, and what one wrote is
\* neither replaced nor suppressed by the other.
C13_BatchIdsCollisionFree ==
    \A i, j \in DOMAIN passLog :
        i # j =>
            /\ passLog[i].entryId # passLog[j].entryId
            /\ passLog[i].saved => Stored(entries, passLog[i].entry)
            /\ StoredAll(tasks, passLog[i].newTasks)
            /\ StoredAll(calendarEvents, passLog[i].newEvents)
            /\ StoredAll(transactions, passLog[i].newTxs)

\* C14: an entry saved with a blank model title and content takes its
\* title from the first line of what the user typed, cut to TitleMax
\* characters and '...', and its content from what the user typed; no
\* saved entry has an empty title.
C14_FallbackTitleAndContent ==
    (passLog # <<>> /\ LastPass.saved) =>
        LET p == LastPass
            authored == AuthoredText(p.newInput)
            line == firstLine(authored)
        IN  /\ p.entry.title # <<>>
            /\ (/\ blank(p.generatedData.title)
                /\ blank(p.generatedData.content)
                /\ authored # <<>>)
                   => /\ p.entry.title =
                             IF Len(line) > TitleMax
                             THEN SubSeq(line, 1, TitleMax) \o <<".", ".", ".">>
                             ELSE line
                      /\ p.entry.content = authored

\* C15: with hasContent false (and no content in the result), one image
\* and nothing typed, the pass saves an entry with empty content and one
\* media item; with hasContent false and no image it saves no entry.
C15_ImageOnlyEntry ==
    (passLog # <<>> /\ LastPass.generatedData.hasContent = "false") =>
        LET p == LastPass
            images == Len(collectedMedia(p.newInput))
        IN  /\ (/\ images = 1
                /\ AuthoredText(p.newInput) = <<>>
                /\ ~truthy(p.generatedData.content))
                   => /\ p.saved
                      /\ Stored(entries, p.entry)
                      /\ p.entry.content = <<>>
                      /\ Len(p.entry.media) = 1
            /\ images = 0 => ~p.saved /\ entries = <<>>

\* C16: every collection is written by merging on the id, and holds no
\* two records with the same id.
C16_MergeById ==
    [][passLog' # passLog =>
          LET p == passLog'[Len(passLog')]
          IN  /\ entries' = Merge(entries, IF p.saved THEN <<p.entry>> ELSE <<>>)
              /\ tasks' = Merge(tasks, p.newTasks)
              /\ calendarEvents' = Merge(calendarEvents, p.newEvents)
              /\ transactions' = Merge(transactions, p.newTxs)
              /\ NoDuplicateIds(entries') /\ NoDuplicateIds(tasks')
              /\ NoDuplicateIds(calendarEvents')
              /\ NoDuplicateIds(transactions')]_vars

\* C20: a pass whose extraction failed, so that the result is the empty
\* object, writes no entry, task, event or transaction.
C20_FailedPassPersistsNothing ==
    (passLog # <<>> /\ LastPass.generatedData = EmptyResult) =>
        /\ ~LastPass.saved
        /\ entries = <<>> /\ tasks = <<>>
        /\ calendarEvents = <<>> /\ transactions = <<>>

\* C21: a saved entry has a non-empty content or some media, and its
\* content is the model's content when that is not blank, else the raw
\* user text, else empty.
C21_NoEmptyShell ==
    (passLog # <<>> /\ LastPass.saved) =>
        LET p == LastPass
            raw == rawUserText(p.newInput)
        IN  /\ Stored(entries, p.entry)
            /\ p.entry.content # <<>> \/ p.entry.media # <<>>
            /\ p.entry.content =
                   IF ~blank(p.generatedData.content) THEN p.generatedData.content.chars
                   ELSE IF raw # <<>> THEN raw
                   ELSE <<>>

\* The candidates of a list that carry their date.
Dated(list) == SelectSeq(list, LAMBDA c : c.when = "given")

\* C22: an event candidate without startTime and a transaction candidate
\* without date leave no record; the other candidates of the result do.
C22_UndatedCandidatesDropped ==
    passLog # <<>> =>
        LET p == LastPass
            events == Dated(p.generatedData.calendarEvents)
            txs == Dated(p.generatedData.transactions)
        IN  /\ Len(calendarEvents) = Len(events)
            /\ Len(transactions) = Len(txs)
            /\ \A k \in DOMAIN calendarEvents :
                   calendarEvents[k].payload = events[k]
            /\ \A k \in DOMAIN transactions :
                   transactions[k].payload = txs[k]

(***************************************************************************)
(* Claims about the calendar form (specification SpecCalendar).            *)
(***************************************************************************)
LastSave == saveEventLog[Len(saveEventLog)]

\* C17: a filled form saves 1, 30, 12 or 6 events for the modes none,
\* daily, weekly and monthly; the events of a weekly series start 7 days
\* apart; each event has exactly one mirrored task, with the id
\* 'task-mirror-' + event id and the event's start as due date.
C17_RecurrenceCountsAndMirrors ==
    (saveEventLog # <<>> /\ LastSave.newEvent.filled) =>
        LET c == LastSave.created
            repeat == LastSave.newEvent.repeat
        IN  /\ Len(c) = CASE repeat = "none" -> 1
                          [] repeat = "daily" -> 30
                          [] repeat = "weekly" -> 12
                          [] repeat = "monthly" -> 6
            /\ StoredAll(calendarEvents, c)
            /\ repeat = "weekly" =>
                   \A k \in 1..(Len(c) - 1) :
                       c[k + 1].startTime.date = c[k].startTime.date + 7
            /\ \A k \in DOMAIN c :
                   Cardinality({q \in DOMAIN tasks :
                       /\ tasks[q].id = <<"task-mirror-", c[k].id>>
                       /\ tasks[q].dueDate = c[k].startTime}) = 1

\* C30: a monthly series has 6 events whose start dates fall in the month
\* of the base date and the 5 months that follow it, one event in each.
C30_MonthlyConsecutiveMonths ==
    (/\ saveEventLog # <<>>
     /\ LastSave.newEvent.filled
     /\ LastSave.newEvent.repeat = "monthly") =>
        LET c == LastSave.created
        IN  /\ Len(c) = MonthlyCount
            /\ \A k \in DOMAIN c :
                   getMonth(c[k].startTime.date) = getMonth(LastSave.newEvent.date) + k - 1

(***************************************************************************)
(* Claims about the interactive chat (specifications Spec and SpecSend).   *)
(***************************************************************************)
IsPrefix(s, t) == Len(s) <= Len(t) /\ SubSeq(t, 1, Len(s)) = s

\* C18: every update of the stream extends it: the messages already in
\* the stream keep their content and their position.
C18_StreamAppendOnly ==
    [][IsPrefix(personalMessages, personalMessages')]_vars

SendDone == sendCall # <<>>

BothModelsFailed ==
    sendCall.hasKey /\ ~sendCall.primaryRun.ok /\ ~sendCall.fallbackRun.ok

\* C19: an accepted send ends with the stream it started from, the user's
\* message and exactly one model-role message after it: the response text,
\* or an error text exactly when the API key is missing or both models
\* failed; isTyping is false again and no record collection was written.
C19_SendEndsWithOneModelMessage ==
    (SendDone /\ sendResult.accepted) =>
        LET before == sendCall.messages
            after == sendResult.messages
            failed == ~sendCall.hasKey \/ BothModelsFailed
        IN  /\ Len(after) = Len(before) + 2
            /\ IsPrefix(before, after)
            /\ after[Len(after) - 1].role = "user"
            /\ after[Len(after)].role = "model"
            /\ sendResult.afterSend = SubSeq(after, 1, Len(after) - 1)
            /\ failed <=> sendResult.text \in
                   {"API Key Missing.", "I'm having trouble connecting right now."}
            /\ ~sendCall.hasKey <=> sendResult.text = "API Key Missing."
            /\ sendResult.text # "none"
            /\ ~sendResult.isTyping
            /\ entries = <<>> /\ tasks = <<>>
            /\ calendarEvents = <<>> /\ transactions = <<>>

\* C19 witness: both models fail after their retries and the send ends
\* with the error text.
C19_Witness ==
    /\ SendDone
    /\ sendResult.accepted
    /\ BothModelsFailed
    /\ sendCall.primaryRun.attempts = Retries
    /\ sendResult.text = "I'm having trouble connecting right now."
    /\ sendResult.messages[Len(sendResult.messages)].role = "model"

(***************************************************************************)
(* Claims about the extraction of a pass (specification SpecExtract).      *)
(***************************************************************************)
ExtractDone == extractCall # <<>>

\* C10: whatever the external calls do, handleAutoSync resolves: with no
\* API key, or with both models failing or unparsable, generateEntryFromChat
\* resolves to the empty result, and an exception of the rest of the pass is
\* caught.
C10_PassNeverRejects ==
    ExtractDone =>
        /\ passResult.outcome = "resolved"
        /\ ~extractCall.hasKey =>
               extractResult.data = "empty" /\ extractResult.failed
        /\ (/\ extractResult.primary \in {"failed", "unparsable"}
            /\ extractResult.fallback \in {"failed", "unparsable"})
               => extractResult.data = "empty" /\ extractResult.failed
        /\ extractResult.data \in {"empty", "object", "malformed", "null"}

\* C10 witness: the primary model fails, the fallback's output cannot be
\* parsed, and the pass resolves.
C10_Witness ==
    /\ ExtractDone
    /\ extractResult.primary = "failed"
    /\ extractResult.fallback = "unparsable"
    /\ extractResult.data = "empty"
    /\ passResult.outcome = "resolved"

\* A pass whose materialization throws on ill-shaped data still resolves.
C10_WitnessThrown ==
    /\ ExtractDone
    /\ extractResult.data = "null"
    /\ passResult.threw
    /\ passResult.outcome = "resolved"

(***************************************************************************)
(* Claims about the life of a pass and about startup (Spec, SpecLive).     *)
(***************************************************************************)
\* The passes a run can start: each one advances the cursor.
PassIds == 1..(MaxHistory + 2 * MaxSends)

Extracting(i) == i \in DOMAIN passes /\ passes[i].phase = "extracting"

Done(i) == i \in DOMAIN passes /\ passes[i].phase = "done"

\* C23: every pass that starts ends, and the in-progress indicator is
\* cleared at its end, whether its extraction succeeded or failed.
C23_PassEndsAndClearsIndicator ==
    \A i \in PassIds : Extracting(i) ~> (Done(i) /\ ~isAutoSaving)

C23_Witness ==
    \E i \in DOMAIN passes : Done(i) /\ passes[i].failed /\ ~isAutoSaving

\* The messages appended after startup.
AppendedIds == (MaxHistory + 1)..(MaxHistory + 2 * MaxSends)

InStream(m) == m \in Ids(personalMessages)

Submitted(m) == \E i \in DOMAIN passes : m \in Ids(passes[i].newInput)

\* C24: every message appended to the stream after startup is eventually
\* part of the new input of some pass.
C24_AppendedEventuallySubmitted ==
    \A m \in AppendedIds : InStream(m) ~> Submitted(m)

\* C25: the in-progress indicator is true exactly while some pass is
\* between its start and its end.
C25_IndicatorIffPassInFlight ==
    isAutoSaving <=> (\E i \in DOMAIN passes : Extracting(i))

\* C26: the cursor starts at the length of the loaded history and never
\* falls below it, the initial load starts no timer and no pass, and the
\* new input of every pass holds only messages appended after startup.
C26_HistoryNeverSubmitted ==
    /\ personalProcessedCountRef >= startupCount
    /\ sent = 0 =>
           /\ personalProcessedCountRef = startupCount
           /\ timers = {}
           /\ passes = <<>>
    /\ \A i \in DOMAIN passes :
           /\ passes[i].a >= startupCount
           /\ Ids(passes[i].newInput) \cap Ids(getChatHistory(startupCount)) = {}

C26_Witness ==
    /\ startupCount = MaxHistory
    /\ \E i \in DOMAIN passes : Done(i) /\ passes[i].newInput # <<>>

(***************************************************************************)
(* Claims about the API key (SpecKey) and the number of calls (SpecExtract)*)
(***************************************************************************)
\* C27: a pass started without an API key makes no external call and
\* still leaves the cursor past its slice; no later pass submits a message
\* of that slice, with or without a key.
C27_NoKeyPassSkipsItsSlice ==
    /\ (lastCall.pass # 0 /\ ~passes[lastCall.pass].hasKey) => lastCall.calls = 0
    /\ \A i \in DOMAIN passes :
           ~passes[i].hasKey =>
               /\ personalProcessedCountRef >= passes[i].b
               /\ \A j \in DOMAIN passes :
                      j > i => Ids(passes[j].newInput) \cap Ids(passes[i].newInput) = {}

C27_Witness ==
    \E i, j \in DOMAIN passes :
        /\ i < j
        /\ ~passes[i].hasKey /\ Done(i) /\ passes[i].failed
        /\ passes[j].hasKey /\ Done(j)
        /\ lastCall.pass = j /\ lastCall.calls > 0

\* C28: one call of generateEntryFromChat makes at most Retries calls of
\* the primary model and at most Retries calls of the fallback model, and
\* calls the fallback model only when the primary run failed or its output
\* could not be parsed.
C28_AtMostSixCalls ==
    ExtractDone =>
        /\ extractResult.primaryCalls <= Retries
        /\ extractResult.fallbackCalls <= Retries
        /\ extractResult.primaryCalls + extractResult.fallbackCalls <= 2 * Retries
        /\ extractResult.fallbackCalls > 0 =>
               /\ extractResult.primary \in {"failed", "unparsable"}
               /\ extractResult.primaryCalls > 0
        /\ extractResult.primaryCalls =
               IF extractCall.hasKey THEN extractCall.primaryRun.attempts ELSE 0

\* C28 witness: three failed calls of each model.
C28_Witness ==
    /\ ExtractDone
    /\ extractResult.primaryCalls = Retries
    /\ extractResult.fallbackCalls = Retries
    /\ extractResult.failed

(***************************************************************************)
(* Claims about deletion (SpecDelete).                                     *)
(***************************************************************************)
\* C29: a deletion (a step that is not a pass) removes the entries with
\* the id of one stored entry and nothing else from the entries, and leaves
\* the tasks, the calendar events and the transactions as they are.
C29_DeleteEntryFrame ==
    [][passLog' = passLog =>
          /\ \E k \in DOMAIN entries :
                 entries' = SelectSeq(entries, LAMBDA e : e.id # entries[k].id)
          /\ tasks' = tasks
          /\ calendarEvents' = calendarEvents
          /\ transactions' = transactions]_vars

\* C29 witness: the entry of a pass is gone and records linked to it are
\* still stored.
C29_Witness ==
    \E k \in DOMAIN passLog :
        /\ passLog[k].saved
        /\ \A e \in DOMAIN entries : entries[e].id.batch # passLog[k].entryId
        /\ \E t \in DOMAIN tasks : tasks[t].linkedEntryId = passLog[k].entryId
        /\ \E c \in DOMAIN calendarEvents :
               calendarEvents[c].linkedEntryId = passLog[k].entryId
        /\ \E x \in DOMAIN transactions :
               transactions[x].linkedEntryId = passLog[k].entryId

====
